---- MODULE Spec2Model ----
\* A model of augraphy's Dithering augmentation (Bayer matrix construction,
\* ordered dithering, Floyd-Steinberg dithering), of AugmentationSequence, of
\* Geometric's crop step and of the scanner's parallel light mask, translated
\* from the Python sources.
EXTENDS Integers, Sequences, FiniteSets, TLC

VARIABLES
    order,           \* Dithering.order of the ordered-dithering call
    image,           \* the array handed to dither_Ordered / dither_Floyd_Steinberg
    bayer,           \* what create_bayer(0, 0, 2**order, 0, 1) returned
    ordered_matrix,  \* the matrix after the quantization loop of dither_Ordered
    img_dither,      \* the array the dither_* method returned
    cast_wraps,      \* how this build casts an out-of-range float to uint8
    pc,              \* "start" before the call, "done" after it
    augmentations,   \* AugmentationSequence.augmentations
    p,               \* AugmentationSequence.p, in percent
    results,         \* AugmentationSequence.results
    heap,            \* the live arrays; heap[1] is the array the caller passes in
    ret,             \* what the last call returned to the caller
    calls,           \* calls made so far
    ran,             \* sequence calls so far in which the sequence ran
    last,            \* the last call: which one, its force flag and its random draws
    bayerRun,        \* a direct create_bayer call: its arguments, call stack, matrix, outcome
    maskRun,         \* a generate_parallel_light_mask call: arguments, canvas rows, outcome
    geomRun          \* a Geometric stage with a crop: its crop, input, outcome

ditherVars == <<order, image, bayer, ordered_matrix, img_dither, pc>>

seqVars == <<augmentations, p, results, heap, ret, calls, ran, last>>

otherVars == <<bayerRun, maskRun, geomRun>>

vars == <<order, image, bayer, ordered_matrix, img_dither, cast_wraps, pc,
          augmentations, p, results, heap, ret, calls, ran, last,
          bayerRun, maskRun, geomRun>>

----------------------------------------------------------------------------
\* Bounds of the model.

MaxOrder == 3        \* orders 1..MaxOrder are tried
MaxOY == 2           \* ordered dithering: image heights 1..MaxOY
MaxOX == 3           \* ordered dithering: image widths 1..MaxOX
MaxDim == 2          \* channel counts 1..MaxDim of the multi-channel images

\* Sample values the input images are built from (8-bit).
OrderedPixels == {0, 100}

NoValue == "None"

\* The sequence's variables where no sequence is modelled.
SeqIdle ==
    /\ augmentations = <<>>
    /\ p = 100
    /\ results = <<>>
    /\ heap = <<>>
    /\ ret = NoValue
    /\ calls = 0
    /\ ran = 0
    /\ last = NoValue

\* The Dithering variables where no dither call is modelled.
DitherIdle ==
    /\ order = 0
    /\ image = NoValue
    /\ bayer = NoValue
    /\ ordered_matrix = NoValue
    /\ img_dither = NoValue
    /\ cast_wraps = TRUE
    /\ pc = "idle"

BayerIdle == bayerRun = NoValue

MaskIdle == maskRun = NoValue

GeomIdle == geomRun = NoValue

----------------------------------------------------------------------------
\* Arrays.  A numpy array is a record of its shape (a tuple of 2 or 3 sizes)
\* and its samples, indexed from 0 as in the source.

Pow2(n) == 2 ^ n

Cells2(ysize, xsize) == (0 .. ysize - 1) \X (0 .. xsize - 1)

Cells3(ysize, xsize, dim) == (0 .. ysize - 1) \X (0 .. xsize - 1) \X (0 .. dim - 1)

Cells(shape) ==
    IF Len(shape) > 2 THEN Cells3(shape[1], shape[2], shape[3])
    ELSE Cells2(shape[1], shape[2])

\* image[:, :, channel_num]
Channel(img, channel_num) ==
    [c \in Cells2(img.shape[1], img.shape[2]) |-> img.px[<<c[1], c[2], channel_num>>]]

\* A multi-channel array whose channel ch is a flat plane of the sample v[ch].
Flat(ysize, xsize, dim, v) ==
    [shape |-> <<ysize, xsize, dim>>,
     px |-> [c \in Cells3(ysize, xsize, dim) |-> v[c[3]]]]

----------------------------------------------------------------------------
\* Dithering.create_bayer: the recursive quad-tree fill.  The matrix is a
\* function row -> column -> value; `half = size / 2` is exact for the powers
\* of two dither_Ordered passes.

RECURSIVE create_bayer_wrong_step(_, _, _, _, _, _)
create_bayer_wrong_step(x, y, size, value, step, matrix) ==
    IF size = 1 THEN [matrix EXCEPT ![y][x] = value]
    ELSE LET half == size \div 2
             m1 == create_bayer_wrong_step(x, y, half, value + (step * 0), step * 2, matrix)
             m2 == create_bayer_wrong_step(x + half, y + half, half, value + (step * 1), step * 2, m1)
             m3 == create_bayer_wrong_step(x + half, y, half, value + (step * 2), step * 2, m2)
         IN create_bayer_wrong_step(x, y + half, half, value + (step * 3), step * 2, m3)

RECURSIVE create_bayer_row_major(_, _, _, _, _, _)
create_bayer_row_major(x, y, size, value, step, matrix) ==
    IF size = 1 THEN [matrix EXCEPT ![y][x] = value]
    ELSE LET half == size \div 2
             m1 == create_bayer_row_major(x, y, half, value + (step * 0), step * 4, matrix)
             m2 == create_bayer_row_major(x + half, y, half, value + (step * 1), step * 4, m1)
             m3 == create_bayer_row_major(x, y + half, half, value + (step * 2), step * 4, m2)
         IN create_bayer_row_major(x + half, y + half, half, value + (step * 3), step * 4, m3)

RECURSIVE create_bayer_fill(_, _, _, _, _, _)
create_bayer_fill(x, y, size, value, step, matrix) ==
    IF size = 1 THEN [matrix EXCEPT ![y][x] = value]
    ELSE LET half == size \div 2
             \* pattern is TL, BR, TR, BL
             m1 == create_bayer_fill(x, y, half, value + (step * 0), step * 4, matrix)
             m2 == create_bayer_fill(x + half, y + half, half, value + (step * 1), step * 4, m1)
             m3 == create_bayer_fill(x + half, y, half, value + (step * 2), step * 4, m2)
         IN create_bayer_fill(x, y + half, half, value + (step * 3), step * 4, m3)

\* The top-level call: matrix == [[]] allocates a size x size matrix of zeros.
\* A top-level call with size 1 writes the cell and returns nothing.
create_bayer(x, y, size, value, step) ==
    LET zeros == [i \in 0 .. size - 1 |-> [j \in 0 .. size - 1 |-> 0]]
    IN IF size = 1 THEN NoValue
       ELSE create_bayer_fill(x, y, size, value, step, zeros)

\* create_bayer(0, 0, 2 ** order, 0, 1) for each order of the model.
BayerOf == [o \in 1 .. MaxOrder |-> create_bayer(0, 0, Pow2(o), 0, 1)]

\* The quantization loop of dither_Ordered.  np.floor((value / total_number) * 255)
\* in double precision equals the integer quotient for every matrix of side
\* 2..64 (orders 1..6).
Quantize(matrix) ==
    LET side == Cardinality(DOMAIN matrix)
        total_number == side * side - 1
    IN [y \in DOMAIN matrix |-> [x \in DOMAIN matrix[y] |->
            (matrix[y][x] * 255) \div total_number]]

\* Dithering.apply_Ordered on one 2D plane.  Each sample is read and written
\* once, so the in-place loop is the pointwise map.
apply_Ordered_keep(plane, ysize, xsize, ord, matrix) ==
    [c \in Cells2(ysize, xsize) |->
        LET oy == c[1] % ord
            ox == c[2] % ord
        IN IF plane[c] > matrix[oy][ox] THEN 255 ELSE plane[c]]

apply_Ordered(plane, ysize, xsize, ord, matrix) ==
    [c \in Cells2(ysize, xsize) |->
        LET oy == c[1] % ord
            ox == c[2] % ord
        IN IF plane[c] > matrix[oy][ox] THEN 255 ELSE 0]

\* Dithering.dither_Ordered, given the quantized matrix.
dither_Ordered_with(img, ord, matrix) ==
    IF Len(img.shape) > 2
    THEN LET ysize == img.shape[1]
             xsize == img.shape[2]
             dim == img.shape[3]
             planes == [ch \in 0 .. dim - 1 |->
                          apply_Ordered(Channel(img, ch), ysize, xsize, ord, matrix)]
         IN [shape |-> img.shape,
             px |-> [c \in Cells3(ysize, xsize, dim) |-> planes[c[3]][<<c[1], c[2]>>]]]
    ELSE LET ysize == img.shape[1]
             xsize == img.shape[2]
         IN [shape |-> img.shape,
             px |-> apply_Ordered(img.px, ysize, xsize, ord, matrix)]

\* The quantized matrix dither_Ordered builds for each order of the model.
QuantizedOf == [o \in 1 .. MaxOrder |-> Quantize(BayerOf[o])]

dither_Ordered(img, ord) == dither_Ordered_with(img, ord, QuantizedOf[ord])

----------------------------------------------------------------------------
\* Ordered dithering of one image: the inputs are drawn in Init, the call is
\* one step.

InitOrdered ==
    /\ order \in 1 .. MaxOrder
    /\ \/ \E ysize \in 1 .. MaxOY, xsize \in 1 .. MaxOX :
            \E f \in [Cells2(ysize, xsize) -> OrderedPixels] :
                image = [shape |-> <<ysize, xsize>>, px |-> f]
       \/ \E dim \in 1 .. MaxDim : \E v \in [0 .. dim - 1 -> OrderedPixels] :
            image = Flat(MaxOY, MaxOX, dim, v)
    /\ bayer = NoValue
    /\ ordered_matrix = NoValue
    /\ img_dither = NoValue
    /\ cast_wraps = TRUE
    /\ pc = "start"
    /\ SeqIdle
    /\ BayerIdle /\ MaskIdle /\ GeomIdle

DitherOrdered ==
    /\ pc = "start"
    /\ bayer' = BayerOf[order]
    /\ ordered_matrix' = QuantizedOf[order]
    /\ img_dither' = dither_Ordered(image, order)
    /\ pc' = "done"
    /\ UNCHANGED <<order, image, cast_wraps>>
    /\ UNCHANGED seqVars
    /\ UNCHANGED otherVars

NextOrdered == DitherOrdered

SpecOrdered == InitOrdered /\ [][NextOrdered]_vars

----------------------------------------------------------------------------
\* Claims about the Bayer matrix and ordered dithering (under SpecOrdered).

Side == Pow2(order)

\* C3: for every order >= 1 the matrix create_bayer(0, 0, 2^order, 0, 1)
\* returns is a 2^order x 2^order square holding each integer of
\* 0 .. (2^order)^2 - 1 exactly once: its (2^order)^2 cells take all of the
\* (2^order)^2 values.
C3_BayerIsPermutation ==
    pc = "done" =>
        /\ DOMAIN bayer = 0 .. Side - 1
        /\ \A y \in 0 .. Side - 1 : DOMAIN bayer[y] = 0 .. Side - 1
        /\ {bayer[c[1]][c[2]] : c \in Cells2(Side, Side)} = 0 .. Side * Side - 1

C3_Witness == pc = "done" /\ order = MaxOrder /\ bayer[Side - 1][Side - 1] = 21

\* C4: for size 4 create_bayer returns [[0,8,2,10],[12,4,14,6],[3,11,1,9],[15,7,13,5]].
C4_Bayer4 ==
    (pc = "done" /\ order = 2) =>
        bayer = [y \in 0 .. 3 |-> [x \in 0 .. 3 |->
                    <<<<0, 8, 2, 10>>, <<12, 4, 14, 6>>, <<3, 11, 1, 9>>, <<15, 7, 13, 5>>>>[y + 1][x + 1]]]

C4_Witness == pc = "done" /\ order = 2 /\ bayer[3][0] = 15

\* C5: every sample of every channel is compared against the quantized matrix
\* at tile coordinates (y mod side, x mod side), side = 2^order; the output
\* sample is 255 if it is greater and 0 otherwise.
C5_TiledBySide ==
    pc = "done" =>
        \A c \in Cells(image.shape) :
            img_dither.px[c] =
                IF image.px[c] > ordered_matrix[c[1] % Side][c[2] % Side] THEN 255 ELSE 0

\* C6: the output of ordered dithering has the shape of the input and every
\* output sample is 0 or 255.
C6_OrderedBinary ==
    pc = "done" =>
        /\ img_dither.shape = image.shape
        /\ DOMAIN img_dither.px = Cells(image.shape)
        /\ \A c \in Cells(image.shape) : img_dither.px[c] \in {0, 255}

C6_Witness ==
    /\ pc = "done"
    /\ image.shape = <<1, 3>>
    /\ order = 2
    /\ image.px = [c \in Cells2(1, 3) |-> 100]
    /\ img_dither.px[<<0, 0>>] = 255
    /\ img_dither.px[<<0, 1>>] = 0

C6_WitnessColoured ==
    pc = "done" /\ Len(image.shape) = 3 /\ \E c \in Cells(image.shape) : img_dither.px[c] = 255

----------------------------------------------------------------------------
\* Floyd-Steinberg dithering.  The working array is float64; every value the
\* loop produces is a multiple of 1/16^k, k the length of the longest chain of
\* pixels that hand error to one another (at most 2*(ysize-3) + (xsize-2)
\* pixels), so the model keeps each value as an integer count of 1/Scale and
\* the arithmetic is exact, as it is in double precision at these sizes.

MaxY == 3            \* Floyd-Steinberg: image heights 1..MaxY
MaxX == 4            \* Floyd-Steinberg: image widths 1..MaxX

FSPixels == {0, 100, 128, 255}

Max(a, b) == IF a > b THEN a ELSE b

Min(a, b) == IF a < b THEN a ELSE b

Scale(ysize, xsize) == 16 ^ Max(0, 2 * (ysize - 3) + (xsize - 2))

\* image.copy().astype("float")
AsFloat(plane, scale) == [c \in DOMAIN plane |-> plane[c] * scale]

\* astype("uint8") of one float: the fraction is dropped (towards zero); a
\* value outside 0..255 has no defined conversion, and the build either wraps
\* it modulo 256 or saturates it.
AsUint8(v, scale, wraps) ==
    LET t == IF v >= 0 THEN v \div scale ELSE 0 - ((0 - v) \div scale)
    IN IF t \in 0 .. 255 THEN t
       ELSE IF wraps THEN t % 256
       ELSE IF t < 0 THEN 0 ELSE 255

FSVisit_positive_error(img, y, x, scale) ==
    LET old_pixel == img[<<y, x>>]
        new_pixel == 255 * (old_pixel \div (128 * scale)) * scale
        quant_error == Max(old_pixel - new_pixel, 0)
        i0 == [img EXCEPT ![<<y, x>>] = new_pixel]
        i1 == [i0 EXCEPT ![<<y, x + 1>>] = @ + ((quant_error * 7) \div 16)]
        i2 == [i1 EXCEPT ![<<y + 1, x - 1>>] = @ + ((quant_error * 3) \div 16)]
        i3 == [i2 EXCEPT ![<<y + 1, x>>] = @ + ((quant_error * 5) \div 16)]
    IN [i3 EXCEPT ![<<y + 1, x + 1>>] = @ + ((quant_error * 1) \div 16)]

FSVisit_upper_left(img, y, x, scale) ==
    LET old_pixel == img[<<y, x>>]
        new_pixel == 255 * (old_pixel \div (128 * scale)) * scale
        quant_error == Min(old_pixel - new_pixel, 0)
        i0 == [img EXCEPT ![<<y, x>>] = new_pixel]
        i1 == [i0 EXCEPT ![<<y, x + 1>>] = @ + ((quant_error * 7) \div 16)]
        i2 == [i1 EXCEPT ![<<y - 1, x - 1>>] = @ + ((quant_error * 3) \div 16)]
        i3 == [i2 EXCEPT ![<<y + 1, x>>] = @ + ((quant_error * 5) \div 16)]
    IN [i3 EXCEPT ![<<y + 1, x + 1>>] = @ + ((quant_error * 1) \div 16)]

\* One iteration of the loop body of apply_Floyd_Steinberg at (y, x).
FSVisit(img, y, x, scale) ==
    LET old_pixel == img[<<y, x>>]
        new_pixel == 255 * (old_pixel \div (128 * scale)) * scale
        quant_error == Min(old_pixel - new_pixel, 0)
        i0 == [img EXCEPT ![<<y, x>>] = new_pixel]
        i1 == [i0 EXCEPT ![<<y, x + 1>>] = @ + ((quant_error * 7) \div 16)]
        i2 == [i1 EXCEPT ![<<y + 1, x - 1>>] = @ + ((quant_error * 3) \div 16)]
        i3 == [i2 EXCEPT ![<<y + 1, x>>] = @ + ((quant_error * 5) \div 16)]
    IN [i3 EXCEPT ![<<y + 1, x + 1>>] = @ + ((quant_error * 1) \div 16)]

\* The loops of apply_Floyd_Steinberg: y in range(1, ysize-1), x in
\* range(1, xsize-1); k counts the visits made so far.
RECURSIVE FSLoop(_, _, _, _, _)
FSLoop(img, ysize, xsize, scale, k) ==
    IF ysize < 3 \/ xsize < 3 \/ k >= (ysize - 2) * (xsize - 2) THEN img
    ELSE LET y == 1 + k \div (xsize - 2)
             x == 1 + (k % (xsize - 2))
         IN FSLoop(FSVisit(img, y, x, scale), ysize, xsize, scale, k + 1)

\* Dithering.apply_Floyd_Steinberg on one float plane: the loop, then
\* image.astype("uint8").
apply_Floyd_Steinberg(plane, ysize, xsize, scale, wraps) ==
    LET after == FSLoop(plane, ysize, xsize, scale, 0)
    IN [c \in DOMAIN plane |-> AsUint8(after[c], scale, wraps)]

\* Dithering.dither_Floyd_Steinberg.  The closing astype("uint8") acts on
\* values that are already 0..255.
dither_Floyd_Steinberg(img, wraps) ==
    LET ysize == img.shape[1]
        xsize == img.shape[2]
        scale == Scale(ysize, xsize)
    IN IF Len(img.shape) > 2
       THEN LET dim == img.shape[3]
                planes == [ch \in 0 .. dim - 1 |->
                             apply_Floyd_Steinberg(AsFloat(Channel(img, ch), scale),
                                                   ysize, xsize, scale, wraps)]
            IN [shape |-> img.shape,
                px |-> [c \in Cells3(ysize, xsize, dim) |->
                          AsUint8(planes[c[3]][<<c[1], c[2]>>] * scale, scale, wraps)]]
       ELSE LET out == apply_Floyd_Steinberg(AsFloat(img.px, scale), ysize, xsize, scale, wraps)
            IN [shape |-> img.shape,
                px |-> [c \in DOMAIN out |-> AsUint8(out[c] * scale, scale, wraps)]]

IsBorder(c, ysize, xsize) ==
    c[1] = 0 \/ c[1] = ysize - 1 \/ c[2] = 0 \/ c[2] = xsize - 1

InteriorCells(ysize, xsize) == {c \in Cells2(ysize, xsize) : ~IsBorder(c, ysize, xsize)}

\* A 2D array with the sample b on the whole border and the samples f inside:
\* no border sample is ever read by the loop, so their values do not interact.
Framed(ysize, xsize, b, f) ==
    [shape |-> <<ysize, xsize>>,
     px |-> [c \in Cells2(ysize, xsize) |-> IF IsBorder(c, ysize, xsize) THEN b ELSE f[c]]]

InitFS ==
    /\ \/ \E ysize \in 1 .. MaxY, xsize \in 1 .. MaxX :
            \E b \in FSPixels, f \in [InteriorCells(ysize, xsize) -> FSPixels] :
                image = Framed(ysize, xsize, b, f)
       \/ \E dim \in 1 .. MaxDim : \E v \in [0 .. dim - 1 -> FSPixels] :
            image = Flat(MaxY, MaxX, dim, v)
    /\ cast_wraps \in BOOLEAN
    /\ order = 0
    /\ bayer = NoValue
    /\ ordered_matrix = NoValue
    /\ img_dither = NoValue
    /\ pc = "start"
    /\ SeqIdle
    /\ BayerIdle /\ MaskIdle /\ GeomIdle

DitherFloydSteinberg ==
    /\ pc = "start"
    /\ img_dither' = dither_Floyd_Steinberg(image, cast_wraps)
    /\ pc' = "done"
    /\ UNCHANGED <<order, image, bayer, ordered_matrix, cast_wraps>>
    /\ UNCHANGED seqVars
    /\ UNCHANGED otherVars

NextFS == DitherFloydSteinberg

SpecFS == InitFS /\ [][NextFS]_vars

----------------------------------------------------------------------------
\* Claims about Floyd-Steinberg dithering (under SpecFS).

Interior(shape) ==
    {c \in Cells(shape) : c[1] \in 1 .. shape[1] - 2 /\ c[2] \in 1 .. shape[2] - 2}

\* C7: after Floyd-Steinberg dithering every interior pixel of the returned
\* image is 0 or 255, also a pixel whose accumulated value was negative when
\* it was visited.
C7_InteriorBinary ==
    pc = "done" => \A c \in Interior(image.shape) : img_dither.px[c] \in {0, 255}

\* C8: after Floyd-Steinberg dithering every border pixel of the returned
\* image equals the same pixel of the input image.
C8_BorderUnchanged ==
    pc = "done" =>
        \A c \in Cells(image.shape) \ Interior(image.shape) : img_dither.px[c] = image.px[c]

\* C8 as amended: the pixels of row 0 and the pixel at row 1, column 0 of
\* every channel equal the input; no visited pixel hands error to them.  The
\* other border pixels are the right, lower-left, lower and lower-right
\* neighbours of interior pixels and receive their error.
C8_TopRowUnchanged ==
    pc = "done" =>
        \A c \in Cells(image.shape) :
            (c[1] = 0 \/ (c[1] = 1 /\ c[2] = 0)) => img_dither.px[c] = image.px[c]

C8_Witness ==
    /\ pc = "done"
    /\ image.shape = <<3, 4>>
    /\ image.px[<<1, 1>>] = 128
    /\ image.px[<<0, 0>>] = 100
    /\ img_dither.px[<<0, 2>>] = 100
    /\ img_dither.px[<<1, 0>>] = 100
    /\ img_dither.px[<<1, 3>>] # 100
    /\ img_dither.px[<<2, 0>>] # 100

----------------------------------------------------------------------------
\* The augmentations and AugmentationSequence.  Arrays live in a heap of
\* numbered arrays: copy() and every operation that builds a new array
\* allocate, in-place writes change the array at the address they hold.  A
\* value is None, an array, or the pair an AugmentationSequence returns.

MaxStages == 2       \* stage lists of length 0..MaxStages
MaxCalls == 2        \* calls per behaviour

ValueThreshold == 128    \* Letterpress.value_threshold_range = (128, 128)
SubtleRange == 10        \* SubtleNoise.subtle_range

None == [kind |-> "None", addr |-> 0, first |-> "-"]

Ref(a) == [kind |-> "ndarray", addr |-> a, first |-> "-"]

\* (result, self.augmentations): `first` is the kind of its first component.
Pair(v) == [kind |-> "tuple", addr |-> v.addr, first |-> v.kind]

Raised == [kind |-> "raised", addr |-> 0, first |-> "-"]

\* result[0]
First(v) == [kind |-> v.first, addr |-> v.addr, first |-> "-"]

\* Augmentation.should_run: a uniform draw u (percent) against the stage's p.
should_run(prob, u) == u < prob

Draws == {0, 50, 99}

GateOutcomes(prob) == {should_run(prob, u) : u \in Draws}

\* image.copy(): a new array with the same samples.
ndarray_alias(h, a) == [heap |-> h, addr |-> a]

ndarray_copy(h, a) == [heap |-> Append(h, h[a]), addr |-> Len(h) + 1]

\* Any other operation that returns a new array.
NewArray(h, arr) == [heap |-> Append(h, arr), addr |-> Len(h) + 1]

Clip(v) == Max(0, Min(255, v))

\* The random draws of one stage call, one of two outcomes each: the flat
\* noise mask of Letterpress, the flat noise of SubtleNoise, the loss of the
\* JPEG codec.
Rnd == {0, 1}

NoiseMask(rnd) == IF rnd = 0 THEN 0 ELSE 230

Noise(rnd) == IF rnd = 0 THEN 0 - SubtleRange ELSE SubtleRange - 1

CodecLoss(rnd) == IF rnd = 0 THEN 0 ELSE 0 - 1

IsRandom(aug) == aug.kind \in {"Letterpress", "SubtleNoise", "Jpeg"}

\* Dithering.__call__ after the copy: the dither methods work on a float copy
\* of their own and return a new array.
DitheringBody(aug, h, a, wraps) ==
    NewArray(h, IF aug.dither = "ordered" THEN dither_Ordered(h[a], aug.order)
                ELSE dither_Floyd_Steinberg(h[a], wraps))

\* Letterpress.__call__ after the copy: image[indices] = noise_mask[indices]
\* writes into the array it holds and returns that array.
LetterpressBody(aug, h, a, rnd) ==
    LET img == h[a]
        px == [c \in DOMAIN img.px |->
                 IF img.px[c] < ValueThreshold THEN NoiseMask(rnd) ELSE img.px[c]]
    IN [heap |-> [h EXCEPT ![a] = [shape |-> img.shape, px |-> px]], addr |-> a]

\* Jpeg.__call__ after the copy: cv2.imdecode(encimg, 1) returns a new
\* 3-channel array.
JpegBody(aug, h, a, rnd) ==
    LET img == h[a]
        ysize == img.shape[1]
        xsize == img.shape[2]
        sample(c) == IF Len(img.shape) > 2 THEN img.px[c] ELSE img.px[<<c[1], c[2]>>]
    IN NewArray(h, [shape |-> <<ysize, xsize, 3>>,
                    px |-> [c \in Cells3(ysize, xsize, 3) |-> Clip(sample(c) + CodecLoss(rnd))]])

\* SubtleNoise.__call__ after the copy: noise added in int, clipped to 0..255,
\* returned as a new uint8 array.
SubtleNoiseBody(aug, h, a, rnd) ==
    LET img == h[a]
    IN NewArray(h, [shape |-> img.shape,
                    px |-> [c \in DOMAIN img.px |-> Clip(img.px[c] + Noise(rnd))]])

\* Geometric.__call__ after the copy, with scale (1, 1), no crop, translation
\* or rotation: cv2.resize to the same size, then np.fliplr if fliplr is set.
GeometricBody(aug, h, a) ==
    LET img == h[a]
        xsize == img.shape[2]
        flip(c) == IF Len(img.shape) > 2 THEN <<c[1], xsize - 1 - c[2], c[3]>>
                   ELSE <<c[1], xsize - 1 - c[2]>>
    IN NewArray(h, [shape |-> img.shape,
                    px |-> [c \in DOMAIN img.px |->
                              IF aug.fliplr = 1 THEN img.px[flip(c)] ELSE img.px[c]]])

\* The __call__ of a stage: the gate, the copy, the transformation.  A stage
\* whose gate fails returns nothing; one handed None fails on image.copy().
StageCall(aug, h, v, force, pass, rnd, wraps) ==
    IF ~(force \/ pass) THEN [heap |-> h, value |-> None, raised |-> FALSE]
    ELSE IF v.kind # "ndarray" THEN [heap |-> h, value |-> None, raised |-> TRUE]
    ELSE LET c == ndarray_copy(h, v.addr)
             r == CASE aug.kind = "Dithering" -> DitheringBody(aug, c.heap, c.addr, wraps)
                    [] aug.kind = "Letterpress" -> LetterpressBody(aug, c.heap, c.addr, rnd)
                    [] aug.kind = "Jpeg" -> JpegBody(aug, c.heap, c.addr, rnd)
                    [] aug.kind = "SubtleNoise" -> SubtleNoiseBody(aug, c.heap, c.addr, rnd)
                    [] OTHER -> GeometricBody(aug, c.heap, c.addr)
         IN [heap |-> r.heap, value |-> Ref(r.addr), raised |-> FALSE]

\* The loop of AugmentationSequence.__call__ from stage i on.  st holds the
\* heap, `result`, the log and whether a stage raised.
\* One pass of the loop body: the log and `result` after the stage returned.
AfterStage(st, current) ==
    [heap |-> current.heap,
     result |-> current.value,
     log |-> IF current.raised THEN st.log ELSE Append(st.log, current.value),
     raised |-> current.raised]

RECURSIVE RunFromForced(_, _, _, _, _, _, _)
RunFromForced(augs, i, st, img, passes, rnds, wraps) ==
    IF i > Len(augs) \/ st.raised THEN st
    ELSE LET result == IF st.result.kind = "tuple" THEN First(st.result) ELSE st.result
             current == StageCall(augs[i], st.heap, result, TRUE, passes[i], rnds[i], wraps)
         IN RunFromForced(augs, i + 1, AfterStage(st, current), img, passes, rnds, wraps)

RECURSIVE RunFromOriginal(_, _, _, _, _, _, _)
RunFromOriginal(augs, i, st, img, passes, rnds, wraps) ==
    IF i > Len(augs) \/ st.raised THEN st
    ELSE LET current == StageCall(augs[i], st.heap, img, FALSE, passes[i], rnds[i], wraps)
         IN RunFromOriginal(augs, i + 1, AfterStage(st, current), img, passes, rnds, wraps)

RECURSIVE RunFrom(_, _, _, _, _, _, _)
RunFrom(augs, i, st, img, passes, rnds, wraps) ==
    IF i > Len(augs) \/ st.raised THEN st
    ELSE LET result == IF st.result.kind = "tuple" THEN First(st.result) ELSE st.result
             current == StageCall(augs[i], st.heap, result, FALSE, passes[i], rnds[i], wraps)
         IN RunFrom(augs, i + 1, AfterStage(st, current), img, passes, rnds, wraps)

\* The body of AugmentationSequence.__call__ once its gate has passed:
\* result = image, the loop over the stages.
RunSequence(augs, h, log, img, passes, rnds, wraps) ==
    RunFrom(augs, 1, [heap |-> h, result |-> img, log |-> log, raised |-> FALSE],
            img, passes, rnds, wraps)

\* Arrays nothing refers to any more are freed when a call returns: the heap
\* keeps the caller's array, the arrays of the log and the returned array.
Live(log, v) ==
    {1} \cup {log[k].addr : k \in {j \in 1 .. Len(log) : log[j].addr > 0}}
        \cup (IF v.addr > 0 THEN {v.addr} ELSE {})

Rank(keep, a) == Cardinality({k \in keep : k <= a})

Moved(keep, v) == IF v.addr > 0 THEN [v EXCEPT !.addr = Rank(keep, v.addr)] ELSE v

Collect(h, log, v) ==
    LET keep == Live(log, v)
    IN [heap |-> [n \in 1 .. Cardinality(keep) |->
                    h[CHOOSE a \in keep : Rank(keep, a) = n]],
        log |-> [k \in 1 .. Len(log) |-> Moved(keep, log[k])],
        value |-> Moved(keep, v)]

----------------------------------------------------------------------------
\* The sequence and its caller.

SeqPixels == {100, 200}

\* The stages a sequence is built from.  A stage whose gate fails returns
\* before it looks at its own parameters, so p = 0 is tried on two classes.
Stages ==
    [kind : {"Dithering"}, p : {0, 100}, dither : {"ordered"}, order : {2}, fliplr : {0}]
    \cup [kind : {"Letterpress"}, p : {0, 100}, dither : {"-"}, order : {0}, fliplr : {0}]
    \cup [kind : {"Jpeg", "SubtleNoise"}, p : {100}, dither : {"-"}, order : {0}, fliplr : {0}]
    \cup [kind : {"Geometric"}, p : {100}, dither : {"-"}, order : {0}, fliplr : {1}]

Init ==
    /\ \E n \in 0 .. MaxStages : augmentations \in [1 .. n -> Stages]
    /\ p \in {50, 100}
    /\ results = <<>>
    /\ \E v \in SeqPixels :
          image = [shape |-> <<1, 2>>, px |-> [c \in Cells2(1, 2) |-> IF c[2] = 0 THEN 100 ELSE v]]
    /\ heap = <<image>>
    /\ ret = None
    /\ calls = 0
    /\ ran = 0
    /\ last = [op |-> "none", force |-> FALSE, ran |-> FALSE, passes |-> <<>>, rnds |-> <<>>]
    /\ cast_wraps = TRUE
    /\ order = 0
    /\ bayer = NoValue
    /\ ordered_matrix = NoValue
    /\ img_dither = NoValue
    /\ pc = "idle"
    /\ BayerIdle /\ MaskIdle /\ GeomIdle

\* The draws of the stages of one sequence call: a gate outcome per stage, a
\* random outcome per stage that uses one.  The stages of one call see the
\* same outcome of the generator; different calls see different ones.
StageDraws(passes, rnds) ==
    /\ \A i \in 1 .. Len(augmentations) :
        /\ passes[i] \in GateOutcomes(augmentations[i].p)
        /\ (~(IsRandom(augmentations[i]) /\ passes[i]) => rnds[i] = 0)
    /\ \A i, j \in 1 .. Len(augmentations) :
        (IsRandom(augmentations[i]) /\ passes[i] /\ IsRandom(augmentations[j]) /\ passes[j])
            => rnds[i] = rnds[j]

\* AugmentationSequence.__call__(image, force) on the caller's array.
SequenceCall(force) ==
    /\ calls < MaxCalls
    /\ \E pass \in GateOutcomes(p) :
        IF force \/ pass
        THEN \E passes \in [1 .. Len(augmentations) -> BOOLEAN],
                rnds \in [1 .. Len(augmentations) -> Rnd] :
                /\ StageDraws(passes, rnds)
                /\ \E st \in {RunSequence(augmentations, heap, results, Ref(1),
                                           passes, rnds, cast_wraps)} :
                     \E gc \in {Collect(st.heap, st.log,
                                        IF st.raised THEN Raised ELSE Pair(st.result))} :
                        /\ heap' = gc.heap
                        /\ results' = gc.log
                        /\ ret' = gc.value
                /\ last' = [op |-> "sequence", force |-> force, ran |-> TRUE,
                            passes |-> passes, rnds |-> rnds]
                /\ ran' = ran + 1
        ELSE /\ \E gc \in {Collect(heap, results, None)} :
                    heap' = gc.heap /\ results' = gc.log /\ ret' = gc.value
             /\ last' = [op |-> "sequence", force |-> force, ran |-> FALSE,
                         passes |-> <<>>, rnds |-> <<>>]
             /\ ran' = ran
    /\ calls' = calls + 1
    /\ UNCHANGED <<augmentations, p, cast_wraps>>
    /\ UNCHANGED ditherVars
    /\ UNCHANGED otherVars

\* augmentations[i](image, force): the caller calls one stage directly, in
\* place of the sequence.
AugmentationCall(i, force) ==
    /\ calls = 0
    /\ i \in 1 .. Len(augmentations)
    /\ \E pass \in GateOutcomes(augmentations[i].p), rnd \in Rnd :
        /\ (~(IsRandom(augmentations[i]) /\ (force \/ pass)) => rnd = 0)
        /\ \E r \in {StageCall(augmentations[i], heap, Ref(1), force, pass, rnd, cast_wraps)} :
             \E gc \in {Collect(r.heap, results, IF r.raised THEN Raised ELSE r.value)} :
                /\ heap' = gc.heap
                /\ results' = gc.log
                /\ ret' = gc.value
        /\ last' = [op |-> "stage", force |-> force, ran |-> force \/ pass,
                    passes |-> <<pass>>, rnds |-> <<rnd>>]
    /\ calls' = MaxCalls
    /\ UNCHANGED <<augmentations, p, ran, cast_wraps>>
    /\ UNCHANGED ditherVars
    /\ UNCHANGED otherVars

Next ==
    \/ \E force \in BOOLEAN : SequenceCall(force)
    \/ \E i \in 1 .. MaxStages, force \in BOOLEAN : AugmentationCall(i, force)

Spec == Init /\ [][Next]_vars

----------------------------------------------------------------------------
\* Claims about AugmentationSequence and the stages (under Spec).

\* What a stage whose gate passes returns for the array arr and the draw rnd.
Apply(aug, arr, rnd) ==
    LET r == StageCall(aug, <<arr>>, Ref(1), FALSE, TRUE, rnd, cast_wraps)
    IN r.heap[r.value.addr]

SequenceRan == last.op = "sequence" /\ last.ran

BothAtOne ==
    /\ Len(augmentations) = 2
    /\ augmentations[1].p = 100
    /\ augmentations[2].p = 100

\* C1 as stated: with the stage list [A, B], both at p = 1, the call runs A,
\* then B on A's output, and the result of the call equals B(A(I)).
C1_ResultIsComposition ==
    (SequenceRan /\ BothAtOne) =>
        /\ ret.kind = "ndarray"
        /\ heap[ret.addr] = Apply(augmentations[2],
                                  Apply(augmentations[1], image, last.rnds[1]), last.rnds[2])

\* C1 as amended: with the stage list [A, B], both at p = 1, a call whose own
\* gate passes (or that is forced) runs A on I, then B on A's output, and
\* returns the pair (B(A(I)), stage list): the first component of the result,
\* not the result itself, equals B(A(I)).
C1_FirstOfPairIsComposition ==
    (SequenceRan /\ BothAtOne) =>
        LET n == Len(results)
        IN /\ n >= 2
           /\ results[n - 1].kind = "ndarray"
           /\ results[n].kind = "ndarray"
           /\ heap[results[n - 1].addr] = Apply(augmentations[1], image, last.rnds[1])
           /\ heap[results[n].addr] =
                 Apply(augmentations[2], heap[results[n - 1].addr], last.rnds[2])
           /\ ret = Pair(results[n])

C1_Witness ==
    /\ SequenceRan
    /\ BothAtOne
    /\ augmentations[1].kind = "Geometric"
    /\ augmentations[2].kind = "Dithering"
    /\ image.px[<<0, 1>>] = 200
    /\ ret.kind = "tuple"
    /\ heap[ret.addr].px = [c \in Cells2(1, 2) |-> IF c[2] = 0 THEN 255 ELSE 0]

\* The stages that are not at p = 0, and a list cut down to them.
Kept == {i \in 1 .. Len(augmentations) : augmentations[i].p # 0}

Omit(list) == [k \in 1 .. Cardinality(Kept) |-> list[CHOOSE i \in Kept : Rank(Kept, i) = k]]

SameOutcome(v, h, w, g) ==
    /\ v.kind = w.kind
    /\ v.first = w.first
    /\ (v.addr > 0 /\ w.addr > 0) => h[v.addr] = g[w.addr]

\* C2: a sequence that holds a stage at p = 0 produces the same end-to-end
\* output as the same sequence without that stage, wherever the stage sits.
C2_SkipEqualsOmit ==
    (SequenceRan /\ Kept # 1 .. Len(augmentations)) =>
        LET st == RunSequence(Omit(augmentations), <<image>>, <<>>, Ref(1),
                              Omit(last.passes), Omit(last.rnds), cast_wraps)
        IN SameOutcome(ret, heap, IF st.raised THEN Raised ELSE Pair(st.result), st.heap)

\* C9: the log is append-only over the life of the sequence and each running
\* call adds one entry per stage, so after k running calls on n stages it
\* holds k*n entries.
C9_LogHoldsKTimesN == Len(results) = ran * Len(augmentations)

\* C10: calling a stage or an AugmentationSequence never changes the caller's
\* array: after every call, whether the gate passed or not, each sample of the
\* array passed in equals its value before the call.
C10_CallerArrayUnchanged == calls > 0 => heap[1] = image

C10_Witness ==
    /\ last.op = "stage"
    /\ last.ran
    /\ augmentations[1].kind = "Letterpress"
    /\ ret.kind = "ndarray"
    /\ heap[ret.addr] # image
    /\ heap[1] = image

C10_WitnessSequence ==
    /\ SequenceRan
    /\ calls = MaxCalls
    /\ \E i \in 1 .. Len(augmentations) : augmentations[i].kind = "Letterpress"
    /\ ret.kind = "tuple"
    /\ ret.first = "ndarray"
    /\ heap[ret.addr] # image
    /\ heap[1] = image

----------------------------------------------------------------------------
\* Dithering.create_bayer called directly with any size, one call, write or
\* return at a time.  `half = size / 2` is a true division: for a size that
\* is not a power of two the halves are fractions (3, 1.5, 0.75, ...), each
\* exact in double precision, and `size == 1` is never met.  Coordinates and
\* sizes are kept as integer counts of 1/Unit.  The interpreter ends a chain
\* of nested calls at its recursion limit with a RecursionError.

MaxSize == 8         \* create_bayer sizes 1..MaxSize are tried
MaxDepth == 6        \* the interpreter's recursion limit, in create_bayer frames

Unit == 2 ^ MaxDepth

IsPowerOfTwo(n) == \E k \in 0 .. n : Pow2(k) = n

\* The arguments of the recursive call number `next` (0..3) made by frame f.
\* pattern is TL, BR, TR, BL
BayerChild(f) ==
    LET half == f.size \div 2
    IN [x |-> IF f.next \in {1, 2} THEN f.x + half ELSE f.x,
        y |-> IF f.next \in {1, 3} THEN f.y + half ELSE f.y,
        size |-> half,
        value |-> f.value + (f.step * f.next),
        step |-> f.step * 4,
        next |-> 0]

\* What a create_bayer call leaves alone.
bayerFrame == <<order, image, bayer, ordered_matrix, img_dither, cast_wraps, pc,
                augmentations, p, results, heap, ret, calls, ran, last,
                maskRun, geomRun>>

InitBayer ==
    /\ \E size \in 1 .. MaxSize :
          bayerRun = [size |-> size, stack |-> <<>>, matrix |-> NoValue,
                      calls |-> 0, writes |-> 0, outcome |-> "start", ret |-> NoValue]
    /\ DitherIdle
    /\ SeqIdle
    /\ MaskIdle /\ GeomIdle

\* create_bayer(0, 0, size, 0, 1): the outermost call is entered and, as
\* matrix == [[]], allocates size x size zeros.
BayerEnter ==
    /\ bayerRun.outcome = "start"
    /\ bayerRun' = [bayerRun EXCEPT
          !.stack = <<[x |-> 0, y |-> 0, size |-> bayerRun.size * Unit,
                       value |-> 0, step |-> 1, next |-> 0]>>,
          !.matrix = [i \in 0 .. bayerRun.size - 1 |-> [j \in 0 .. bayerRun.size - 1 |-> 0]],
          !.outcome = "running"]
    /\ UNCHANGED bayerFrame

\* if size == 1: matrix[int(y)][int(x)] = value; return
BayerWrite ==
    /\ bayerRun.outcome = "running"
    /\ LET f == bayerRun.stack[Len(bayerRun.stack)]
           rest == SubSeq(bayerRun.stack, 1, Len(bayerRun.stack) - 1)
       IN /\ f.size = Unit
          /\ bayerRun' = [bayerRun EXCEPT
                !.matrix[f.y \div Unit][f.x \div Unit] = f.value,
                !.writes = @ + 1,
                !.stack = rest,
                !.outcome = IF rest = <<>> THEN "returned" ELSE "running",
                !.ret = NoValue]
    /\ UNCHANGED bayerFrame

\* One of the four recursive calls of the innermost frame; the call that
\* would pass the recursion limit raises instead, and the error unwinds
\* every frame.
BayerRecurse ==
    /\ bayerRun.outcome = "running"
    /\ LET n == Len(bayerRun.stack)
           f == bayerRun.stack[n]
       IN /\ f.size # Unit
          /\ f.next < 4
          /\ IF n < MaxDepth
             THEN bayerRun' = [bayerRun EXCEPT
                     !.stack = Append([bayerRun.stack EXCEPT ![n].next = @ + 1],
                                      BayerChild(f)),
                     !.calls = @ + 1]
             ELSE bayerRun' = [bayerRun EXCEPT
                     !.stack = <<>>, !.outcome = "RecursionError"]
    /\ UNCHANGED bayerFrame

\* return matrix, after the fourth recursive call.
BayerReturn ==
    /\ bayerRun.outcome = "running"
    /\ LET f == bayerRun.stack[Len(bayerRun.stack)]
           rest == SubSeq(bayerRun.stack, 1, Len(bayerRun.stack) - 1)
       IN /\ f.size # Unit
          /\ f.next = 4
          /\ bayerRun' = [bayerRun EXCEPT
                !.stack = rest,
                !.outcome = IF rest = <<>> THEN "returned" ELSE "running",
                !.ret = IF rest = <<>> THEN bayerRun.matrix ELSE NoValue]
    /\ UNCHANGED bayerFrame

NextBayer ==
    \/ BayerEnter
    \/ BayerWrite
    \/ BayerRecurse
    \/ BayerReturn

SpecBayer == InitBayer /\ [][NextBayer]_vars

----------------------------------------------------------------------------
\* Claims about create_bayer called with any size (under SpecBayer).

\* C11: building a Bayer matrix with a size that is not a power of two fails
\* with InvalidConfiguration eagerly: no recursive call is made and no cell is
\* written, the call never nests without end, and no partially filled matrix
\* is returned.
C11_RejectedEagerly ==
    (bayerRun.outcome # "start" /\ ~IsPowerOfTwo(bayerRun.size)) =>
        /\ bayerRun.outcome = "InvalidConfiguration"
        /\ bayerRun.calls = 0
        /\ bayerRun.writes = 0
        /\ bayerRun.ret = NoValue

\* What the code does with such a size: it nests halving calls, writing no
\* cell, until the interpreter's recursion limit ends the call.
C11_EndsAtRecursionLimit ==
    (bayerRun.outcome \notin {"start", "running"} /\ ~IsPowerOfTwo(bayerRun.size)) =>
        /\ bayerRun.outcome = "RecursionError"
        /\ bayerRun.calls = MaxDepth - 1
        /\ bayerRun.writes = 0
        /\ bayerRun.ret = NoValue

\* For a power of two the stepwise call returns the matrix of create_bayer.
C11_StepwiseAgrees ==
    (bayerRun.outcome = "returned" /\ IsPowerOfTwo(bayerRun.size)) =>
        bayerRun.ret = create_bayer(0, 0, bayerRun.size, 0, 1)

----------------------------------------------------------------------------
\* ScannerAugmentation.generate_parallel_light_mask and
\* _decayed_value_in_linear.  A brightness or a decay rate is a fraction
\* [num, den] with den > 0, so the linear decay is computed exactly.

MaxMask == 2         \* mask widths and heights 1..MaxMask

Modes == {"linear_static", "linear_dynamic", "gaussian", "linear"}

Brightness == {1, 255}

\* linear_decay_rate: 0.25, 0.5 and 2, within the suggested [0.2, 2]
DecayRates == {[num |-> 1, den |-> 4], [num |-> 1, den |-> 2], [num |-> 2, den |-> 1]}

Frac(n) == [num |-> n, den |-> 1]

\* linear_decay_rate=None
NoRate == [num |-> 0, den |-> 0]

Abs(n) == IF n < 0 THEN 0 - n ELSE n

\* int(max(mask_size) * np.sqrt(2))
Padding(mask_size) ==
    LET n == Max(mask_size[1], mask_size[2])
    IN CHOOSE k \in 0 .. 2 * n : k * k <= 2 * n * n /\ (k + 1) * (k + 1) > 2 * n * n

\* _decayed_value_in_linear(x, max_value, padding_center, decay_rate)
decayed_value_in_linear(x, max_value, padding_center, decay_rate) ==
    LET x_value == [num |-> (max_value * decay_rate.den)
                              - (Abs(padding_center - x) * decay_rate.num),
                    den |-> decay_rate.den]
    IN IF x_value.num < 0 THEN Frac(1) ELSE x_value

\* What a light-mask call leaves alone.
maskFrame == <<order, image, bayer, ordered_matrix, img_dither, cast_wraps, pc,
               augmentations, p, results, heap, ret, calls, ran, last,
               bayerRun, geomRun>>

\* The arguments of one call.  position and direction are given or drawn at
\* random from the same ranges; linear_decay_rate is given, or None.
InitMask ==
    /\ \E w \in 1 .. MaxMask, h \in 1 .. MaxMask, mode \in Modes,
          max_brightness \in Brightness, rate \in DecayRates \cup {NoRate} :
          \E pos_y \in 0 .. h :
             maskRun = [mask_size |-> <<w, h>>, pos_y |-> pos_y, mode |-> mode,
                        max_brightness |-> max_brightness, min_brightness |-> 0,
                        linear_decay_rate |-> rate, canvas_y |-> 0, light_row |-> 0,
                        mask |-> <<>>, outcome |-> "start", value |-> NoValue]
    /\ DitherIdle
    /\ SeqIdle
    /\ BayerIdle /\ GeomIdle

\* generate_parallel_light_mask up to the row loop: the decay rate, the
\* assertion on mode, the canvas.
MaskEnter ==
    /\ maskRun.outcome = "start"
    /\ \E drawn \in DecayRates :
        LET r == maskRun
            rate == IF r.mode = "linear_dynamic"
                    THEN [num |-> r.max_brightness - r.min_brightness,
                          den |-> Max(r.mask_size[1], r.mask_size[2])]
                    ELSE IF r.linear_decay_rate = NoRate /\ r.mode = "linear_static"
                    THEN drawn
                    ELSE r.linear_decay_rate
            padding == Padding(r.mask_size)
        IN /\ (~(r.linear_decay_rate = NoRate /\ r.mode = "linear_static")
                  => drawn = [num |-> 1, den |-> 4])
           /\ IF r.mode \notin {"linear_dynamic", "linear_static", "gaussian"}
              THEN maskRun' = [r EXCEPT !.linear_decay_rate = rate,
                                        !.outcome = "AssertionError"]
              ELSE maskRun' = [r EXCEPT !.linear_decay_rate = rate,
                                        !.canvas_y = (padding * 2) + r.mask_size[2],
                                        !.light_row = padding + r.pos_y,
                                        !.outcome = "filling"]
    /\ UNCHANGED maskFrame

\* One pass of `for i in range(canvas_y)`.  The loop tests mode == "linear",
\* which the assertion has excluded; "gaussian" calls _decayed_value_in_norm,
\* whose `norm` is not defined in the module; any other mode fills 0.
MaskFillRow ==
    /\ maskRun.outcome = "filling"
    /\ Len(maskRun.mask) < maskRun.canvas_y
    /\ LET r == maskRun
           i == Len(r.mask)
       IN IF r.mode = "linear"
          THEN maskRun' = [r EXCEPT !.mask = Append(@,
                    decayed_value_in_linear(i, r.max_brightness, r.light_row,
                                            r.linear_decay_rate))]
          ELSE IF r.mode = "gaussian"
          THEN maskRun' = [r EXCEPT !.outcome = "NameError"]
          ELSE maskRun' = [r EXCEPT !.mask = Append(@, Frac(0))]
    /\ UNCHANGED maskFrame

\* After the loop: rotation, crop, cast, median blur and `255 - mask`.  Every
\* row that was filled holds 0, and each of these steps maps an all-zero mask
\* to an all-zero one, so the call returns 255 everywhere.
MaskFinish ==
    /\ maskRun.outcome = "filling"
    /\ Len(maskRun.mask) = maskRun.canvas_y
    /\ \A i \in 1 .. Len(maskRun.mask) : maskRun.mask[i] = Frac(0)
    /\ maskRun' = [maskRun EXCEPT
          !.outcome = "returned",
          !.value = [shape |-> <<maskRun.mask_size[2], maskRun.mask_size[1]>>,
                     px |-> [c \in Cells2(maskRun.mask_size[2], maskRun.mask_size[1]) |-> 255]]]
    /\ UNCHANGED maskFrame

\* self._decayed_value_in_linear(x, max_brightness, center, rate) called on
\* its own, in place of generate_parallel_light_mask.
DecayedValueCall ==
    /\ maskRun.outcome = "start"
    /\ maskRun.linear_decay_rate # NoRate
    /\ \E x \in 0 .. (2 * MaxMask) :
        maskRun' = [maskRun EXCEPT
           !.outcome = "decayed",
           !.light_row = x,
           !.value = decayed_value_in_linear(x, maskRun.max_brightness,
                                             maskRun.pos_y, maskRun.linear_decay_rate)]
    /\ UNCHANGED maskFrame

NextMask ==
    \/ MaskEnter
    \/ MaskFillRow
    \/ MaskFinish
    \/ DecayedValueCall

SpecMask == InitMask /\ [][NextMask]_vars

----------------------------------------------------------------------------
\* Claims about the light mask (under SpecMask).

\* max_brightness - |i - light_row| * linear_decay_rate, floored at 1.
FlooredDecay(i, r) ==
    LET v == [num |-> (r.max_brightness * r.linear_decay_rate.den)
                        - (Abs(i - r.light_row) * r.linear_decay_rate.num),
              den |-> r.linear_decay_rate.den]
    IN IF v.num >= v.den THEN v ELSE Frac(1)

\* C12: in mode linear_static the value filled into canvas row i is
\* max_brightness - |i - light_row| * linear_decay_rate when that is at least
\* 1, and 1 otherwise; no filled row is below 1.
C12_RowsFlooredAtOne ==
    (maskRun.mode = "linear_static" /\ maskRun.outcome \in {"filling", "returned"}) =>
        \A i \in 1 .. Len(maskRun.mask) :
            /\ maskRun.mask[i] = FlooredDecay(i - 1, maskRun)
            /\ maskRun.mask[i].num >= maskRun.mask[i].den

\* What the code does in mode linear_static: every row is filled with 0.
C12_RowsAreZero ==
    (maskRun.mode = "linear_static" /\ maskRun.outcome \in {"filling", "returned"}) =>
        \A i \in 1 .. Len(maskRun.mask) : maskRun.mask[i] = Frac(0)

\* _decayed_value_in_linear itself floors only negative values: it returns a
\* value in [0, 1) as it is.
C12_DecayedBelowOne ==
    /\ maskRun.outcome = "decayed"
    /\ maskRun.value.num >= 0
    /\ maskRun.value.num < maskRun.value.den

----------------------------------------------------------------------------
\* A Geometric stage built with a crop.  __init__ stores the crop tuple as
\* self.crop, the name of the method `crop`: on the instance, self.crop is
\* the tuple.

MaxGY == 2           \* Geometric: image heights 1..MaxGY
MaxGX == 2           \* Geometric: image widths 1..MaxGX
MaxCrop == 2         \* crop bounds -1..MaxCrop

\* An image whose samples tell its pixels apart.
Numbered(ysize, xsize) ==
    [shape |-> <<ysize, xsize>>,
     px |-> [c \in Cells2(ysize, xsize) |-> (10 * c[1]) + c[2]]]

\* image[ystart:yend, xstart:xend] for 0 <= start < end
Slice(img, ystart, yend, xstart, xend) ==
    LET ysize == Max(0, Min(yend, img.shape[1]) - ystart)
        xsize == Max(0, Min(xend, img.shape[2]) - xstart)
    IN [shape |-> <<ysize, xsize>>,
        px |-> [c \in Cells2(ysize, xsize) |-> img.px[<<c[1] + ystart, c[2] + xstart>>]]]

\* The body of the method Geometric.crop, for self.crop = crop.
crop_method(crop, img) ==
    IF Len(crop) = 4
    THEN LET ysize == img.shape[1]
             xsize == img.shape[2]
             xstart == crop[1]
             ystart == crop[2]
             xend == IF crop[3] = -1 THEN xsize ELSE crop[3]
             yend == IF crop[4] = -1 THEN ysize ELSE crop[4]
             check_y == yend > ystart /\ ystart >= 0
             check_x == xend > xstart /\ xstart >= 0
         IN IF check_y /\ check_x THEN Slice(img, ystart, yend, xstart, xend) ELSE img
    ELSE img

\* What a Geometric call leaves alone.
geomFrame == <<order, image, bayer, ordered_matrix, img_dither, cast_wraps, pc,
               augmentations, p, results, heap, ret, calls, ran, last,
               bayerRun, maskRun>>

\* Geometric(crop=crop, p=1) and the image it is applied to.
InitGeom ==
    /\ \E ysize \in 1 .. MaxGY, xsize \in 1 .. MaxGX :
         \E crop \in {<<>>} \cup [1 .. 4 -> -1 .. MaxCrop] :
            geomRun = [crop |-> crop, p |-> 100, image |-> Numbered(ysize, xsize),
                       op |-> "none", outcome |-> "start", value |-> NoValue]
    /\ DitherIdle
    /\ SeqIdle
    /\ BayerIdle /\ MaskIdle

\* Geometric.__call__(image, force), with the default scale, translation,
\* flips and rotation: after the copy, a non-empty self.crop is called as a
\* function; with an empty one the copy goes through cv2.resize to its own
\* size and is returned.
GeometricCall(force) ==
    /\ geomRun.outcome = "start"
    /\ \E pass \in GateOutcomes(geomRun.p) :
         IF ~(force \/ pass)
         THEN geomRun' = [geomRun EXCEPT !.op = "call", !.outcome = "returned",
                                         !.value = NoValue]
         ELSE IF geomRun.crop # <<>>
         THEN geomRun' = [geomRun EXCEPT !.op = "call", !.outcome = "TypeError"]
         ELSE geomRun' = [geomRun EXCEPT !.op = "call", !.outcome = "returned",
                                         !.value = geomRun.image]
    /\ UNCHANGED geomFrame

\* Geometric.crop(stage, image): the method reached through the class.
CropCall ==
    /\ geomRun.outcome = "start"
    /\ geomRun' = [geomRun EXCEPT !.op = "crop", !.outcome = "returned",
                                  !.value = crop_method(geomRun.crop, geomRun.image)]
    /\ UNCHANGED geomFrame

NextGeom ==
    \/ \E force \in BOOLEAN : GeometricCall(force)
    \/ CropCall

SpecGeom == InitGeom /\ [][NextGeom]_vars

----------------------------------------------------------------------------
\* Claims about Geometric's crop (under SpecGeom).

\* The crop is a 4-tuple whose bounds are degenerate or out of range: after
\* -1 is replaced by the image size, xend <= xstart, yend <= ystart, or a
\* start is negative.
DegenerateCrop(crop, img) ==
    /\ Len(crop) = 4
    /\ LET xend == IF crop[3] = -1 THEN img.shape[2] ELSE crop[3]
           yend == IF crop[4] = -1 THEN img.shape[1] ELSE crop[4]
       IN xend <= crop[1] \/ yend <= crop[2] \/ crop[1] < 0 \/ crop[2] < 0

\* C13: applying a Geometric stage whose 4-tuple crop is degenerate or out of
\* range raises no error, and the image comes out unchanged in size and
\* content.
C13_DegenerateCropSkipped ==
    (geomRun.op = "call" /\ DegenerateCrop(geomRun.crop, geomRun.image)) =>
        /\ geomRun.outcome = "returned"
        /\ geomRun.value = geomRun.image

\* What the code does: applying a stage that has any crop raises TypeError.
C13_CallWithCropRaises ==
    (geomRun.op = "call" /\ geomRun.crop # <<>>) => geomRun.outcome = "TypeError"

\* The body of the method, reached through the class, does skip a degenerate
\* crop.
C13_MethodSkipsDegenerate ==
    (geomRun.op = "crop" /\ DegenerateCrop(geomRun.crop, geomRun.image)) =>
        /\ geomRun.outcome = "returned"
        /\ geomRun.value = geomRun.image

----------------------------------------------------------------------------
\* Claims about the visits of Floyd-Steinberg dithering (under SpecFS).

\* The interior pixels in increasing y, then increasing x: the k-th of them
\* (from 0) is the one that k of them precede.
Precedes(d, c) == d[1] < c[1] \/ (d[1] = c[1] /\ d[2] < c[2])

VisitOrder(ysize, xsize) ==
    LET cells == InteriorCells(ysize, xsize)
    IN [k \in 0 .. Cardinality(cells) - 1 |->
          CHOOSE c \in cells : Cardinality({d \in cells : Precedes(d, c)}) = k]

\* The float plane after the first k visits made in that order.
RECURSIVE VisitedPrefix(_, _, _, _)
VisitedPrefix(plane, visits, scale, k) ==
    IF k = 0 THEN plane
    ELSE FSVisit(VisitedPrefix(plane, visits, scale, k - 1),
                 visits[k - 1][1], visits[k - 1][2], scale)

\* The share, in sixteenths, of the error of the pixel at c that goes to d.
Weight(c, d) ==
    IF d = <<c[1], c[2] + 1>> THEN 7
    ELSE IF d = <<c[1] + 1, c[2] - 1>> THEN 3
    ELSE IF d = <<c[1] + 1, c[2]>> THEN 5
    ELSE IF d = <<c[1] + 1, c[2] + 1>> THEN 1
    ELSE 0

\* 255 * floor(old / 128), for old counted in 1/scale.
Quantized(old, scale) ==
    LET q == CHOOSE n \in -3 .. 3 : n * 128 * scale <= old /\ old < (n + 1) * 128 * scale
    IN 255 * q * scale

\* One visit at c, taking the plane from `before` to `after`, is what the
\* claim describes.
VisitAsClaimed(before, after, c, scale) ==
    LET old == before[c]
        new == Quantized(old, scale)
        quant_error == Min(old - new, 0)
    IN /\ after[c] = new
       /\ \A d \in DOMAIN before \ {c} :
             16 * (after[d] - before[d]) = Weight(c, d) * quant_error
       /\ (0 <= old /\ old < 128 * scale) =>
             /\ new = 0
             /\ \A d \in DOMAIN before \ {c} : after[d] = before[d]
       /\ (\E d \in DOMAIN before \ {c} : after[d] # before[d]) => new > old

\* The input planes and the output planes of the call, channel by channel.
InPlanes ==
    IF Len(image.shape) > 2
    THEN [ch \in 0 .. image.shape[3] - 1 |-> Channel(image, ch)]
    ELSE [ch \in {0} |-> image.px]

OutPlanes ==
    IF Len(image.shape) > 2
    THEN [ch \in 0 .. image.shape[3] - 1 |-> Channel(img_dither, ch)]
    ELSE [ch \in {0} |-> img_dither.px]

C14_WitnessPropagation ==
    /\ pc = "done"
    /\ image.shape = <<3, 4>>
    /\ image.px[<<1, 1>>] = 128
    /\ image.px[<<1, 2>>] = 100
    /\ image.px[<<2, 0>>] = 255
    /\ img_dither.px[<<1, 1>>] = 255
    /\ img_dither.px[<<1, 2>>] = 0
    /\ img_dither.px[<<2, 1>>] = 255 - 40

----------------------------------------------------------------------------
\* Claims about the force flag of a sequence call (under Spec).

\* The step is a forced call of the sequence.
ForcedSequenceCall ==
    /\ calls' = calls + 1
    /\ last'.op = "sequence"
    /\ last'.force

\* C15: the force flag of a sequence call bypasses the sequence's own gate
\* only.  Every stage is called without force and applies its own gate: in a
\* forced call a stage with p = 0 is skipped, the nothing it returns is what
\* is logged, and it is what the next stage is handed (a next stage that runs
\* fails on it).
C15_ForceStopsAtSequence ==
    [][ForcedSequenceCall =>
          /\ last'.ran
          /\ Len(results') <= Len(results) + Len(augmentations)
          /\ ret' # Raised => Len(results') = Len(results) + Len(augmentations)
          /\ \A i \in 1 .. Len(augmentations) :
                /\ last'.passes[i] \in GateOutcomes(augmentations[i].p)
                /\ (augmentations[i].p = 0 /\ Len(results) + i <= Len(results')) =>
                      /\ results'[Len(results) + i] = None
                      /\ (i < Len(augmentations) /\ last'.passes[i + 1]) => ret' = Raised
                      /\ i = Len(augmentations) => ret' = Pair(None)
       ]_vars

\* A forced call of [stage with p = 0, stage with p = 1]: the first was
\* skipped and logged as nothing, the second failed on it.
C15_Witness ==
    /\ last.op = "sequence"
    /\ last.force
    /\ calls = 1
    /\ p = 50
    /\ Len(augmentations) = 2
    /\ augmentations[1].p = 0
    /\ augmentations[2].p = 100
    /\ results = <<None>>
    /\ ret = Raised

====
